---- MODULE Spec2Model ----
(***************************************************************************)
(* Model of the Sora-2 video generation pipeline (src/_main.py): the       *)
(* module-level configuration check, generate_video, wait_for_completion,  *)
(* download_video and main with its single try/except boundary.  The       *)
(* remote service (create / retrieve / download_content), the clock and    *)
(* the local filesystem are the environment: every answer they can give    *)
(* is a nondeterministic choice.                                           *)
(***************************************************************************)
EXTENDS Integers, Sequences, FiniteSets

(* ------------------------------ bounds --------------------------------- *)

\* Sleeps of the polling loop explored before a behaviour is cut off.
MaxPolls == 2

(* --------------------------- program constants ------------------------- *)

\* poll_interval = 10  # Check every 10 seconds
poll_interval == 10

\* output_dir = "videos"
output_dir == "videos"

\* The terminal statuses of the loop condition of wait_for_completion.
TerminalStatuses == {"completed", "failed", "cancelled"}

(* ----------------------------- environment ----------------------------- *)

\* What os.getenv can give: None (unset), the empty string, a value.
EnvVals ==
  { [set |-> FALSE, val |-> ""], [set |-> TRUE, val |-> ""],
    [set |-> TRUE, val |-> "x"] }

\* Statuses the remote service can report for a job.
Statuses == {"queued", "in_progress", "completed", "failed", "cancelled"}

\* Statuses a create call can return with the new job: a non-terminal one
\* and, to show that the poller does not rely on it, a terminal one.
CreateStatuses == {"queued", "completed"}

\* Job identifiers the remote service can issue.
Ids == {"abc123", "video_2"}

\* Time (in seconds) a retrieve call can take to return (with whatever a
\* sleep before it overslept).
Latencies == {0, 1}

\* Sizes (in bytes) of the content a download can return.
Sizes == {1024, 2048}

\* Size of a file left at the output path by an earlier run.
OldSize == 7

\* Size of the file a failed write leaves behind when it got to open it.
PartialSize == 1

\* Seconds by which the system clock is set back when it is adjusted.
SetBack == 100

\* Truthy with the test written as "is not None": an empty value passes.
Truthy_IsSet(v) == v.set

\* Python truthiness of an os.getenv result: None and "" are falsy.
Truthy(v) == v.set /\ v.val # ""

\* No Job snapshot bound yet (the local variable is unassigned).
NoVideo == [id |-> "", status |-> "", error |-> FALSE, failure_reason |-> FALSE]

\* No exception in flight.
NoExc == "none"

\* Whether the string s starts, or ends, with the path separator.
StartsWithSep(s) == Len(s) > 0 /\ SubSeq(s, 1, 1) = "/"
EndsWithSep(s) == Len(s) > 0 /\ SubSeq(s, Len(s), Len(s)) = "/"

\* os.path.join(a, b): an absolute b replaces a; otherwise b is appended,
\* after a separator unless a is empty or already ends with one.
PathJoin(a, b) ==
  IF StartsWithSep(b) THEN b
  ELSE IF a = "" \/ EndsWithSep(a) THEN a \o b
  ELSE a \o "/" \o b

\* OutputPath with the file extension forgotten.
OutputPath_NoExtension(dir, video_id) == PathJoin(dir, video_id)

\* os.path.join(output_dir, f"{video_id}.mp4")
OutputPath(dir, video_id) == PathJoin(dir, video_id \o ".mp4")

\* Every path download_video can compute in this model.
Paths == { OutputPath(output_dir, i) : i \in Ids }

\* A file of n bytes, and a path where no file exists.
File(n) == [exists |-> TRUE, size |-> n]
NoFile == [exists |-> FALSE, size |-> 0]

\* download_video: content before download_content has returned.
NoContent == [exists |-> FALSE, size |-> 0]

VARIABLES
  env,              \* the environment variables read at import
  pc,               \* position of the single thread of control
  video,            \* main: video (returned by generate_video)
  poll_video,       \* wait_for_completion: video (the current snapshot)
  completed_video,  \* main: completed_video
  exc,              \* the exception in flight or handled, NoExc if none
  calls,            \* the remote calls and sleeps made so far, in order
  now,              \* time.time()
  start_time,       \* wait_for_completion: start_time
  elapsed_log,      \* the elapsed values printed so far, in order
  content,          \* download_video: content (the downloaded bytes)
  output_path,      \* main: output_path ("" until download_video returns)
  dir_exists,       \* whether output_dir exists on the local filesystem
  files,            \* the local filesystem: path -> the file there, NoFile
  out,              \* console output: the headline messages, in order
  last_snapshot,    \* the Job snapshot the remote service returned last
  initial_fs,       \* the local filesystem as the run found it
  writes            \* the write_to_file calls made so far, in order

vars ==
  << env, pc, video, poll_video, completed_video, exc, calls, now, start_time,
     elapsed_log, content, output_path, dir_exists, files, out,
     last_snapshot, initial_fs, writes >>

(* ------------------------------- helpers ------------------------------- *)

\* One entry of the log of remote calls and sleeps: the operation, the job
\* id it was called with (create: the id it returned), its result (the
\* status returned, "ok" or "raised") and the seconds asked of a sleep.
Call(op, id, res, secs) == [op |-> op, id |-> id, res |-> res, secs |-> secs]

\* The log entries of operation op.
CallsOf(op) == { i \in 1..Len(calls) : calls[i].op = op }

\* Number of log entries of operation op.
Count(op) == Cardinality(CallsOf(op))

\* if not api_key or not resource_name or not model_name
ConfigMissing(e) ==
  ~Truthy(e.api_key) \/ ~Truthy(e.resource_name) \/ ~Truthy(e.model_name)

\* IsTerminal with the loop written as "while status is queued".
IsTerminal_NotQueued(s) == s # "queued"

\* IsTerminal with "cancelled" left out of the list.
IsTerminal_NoCancelled(s) == s \in {"completed", "failed"}

\* video.status not in ["completed", "failed", "cancelled"]
IsTerminal(s) == s \in TerminalStatuses

\* The positions inside main's try block (everything main calls).
TryRegion ==
  { "main", "wfc_enter", "wfc_loop", "wfc_poll", "main_check", "dl_enter",
    "dl_fetch", "dl_write", "dl_written" }

\* InTry with the try block closed before the download step.
InTry_BeforeDownload(p) ==
  p \in {"main", "wfc_enter", "wfc_loop", "wfc_poll", "main_check"}

\* Whether an exception raised at position p is caught by main's
\* except Exception clause.
InTry(p) == p \in TryRegion

\* raise: control goes to main's handler when inside its try block, and
\* otherwise the exception is uncaught and ends the process.
Raise(e) ==
  /\ exc' = e
  /\ pc' = IF InTry(pc) THEN "except" ELSE "crashed"

(* ------------------------------- initial ------------------------------- *)

Init ==
  /\ env \in [api_key : EnvVals, resource_name : EnvVals, model_name : EnvVals]
  /\ pc = "load"
  /\ video = NoVideo
  /\ poll_video = NoVideo
  /\ completed_video = NoVideo
  /\ exc = NoExc
  /\ calls = << >>
  /\ now = 0
  /\ start_time = 0
  /\ elapsed_log = << >>
  /\ content = NoContent
  /\ output_path = ""
  /\ dir_exists \in BOOLEAN
  /\ \E old \in {{}, {OutputPath(output_dir, "abc123")}} :
       /\ (old # {} => dir_exists)
       /\ files = [p \in Paths |-> IF p \in old THEN File(OldSize) ELSE NoFile]
  /\ out = << >>
  /\ last_snapshot = NoVideo
  /\ initial_fs = [dir_exists |-> dir_exists, files |-> files]
  /\ writes = << >>

(* ------------------------------- actions ------------------------------- *)

\* Lines 34-48 and 214-215: read the configuration, fail fast when a value
\* is missing, otherwise build the client and enter main.
LoadConfig ==
  /\ pc = "load"
  /\ IF ConfigMissing(env)
       THEN /\ Raise("ValueError")
            /\ out' = Append(out, "Traceback")
       ELSE /\ pc' = "main"
            /\ UNCHANGED << exc, out >>
  /\ UNCHANGED << env, initial_fs, last_snapshot, writes, video, poll_video, completed_video, calls, now,
                  start_time, elapsed_log, content, output_path, dir_exists,
                  files >>

\* GenerateVideo with a rejected creation request tried once more.
GenerateVideo_Retry ==
  /\ pc = "main"
  /\ \/ \E i \in Ids, s \in CreateStatuses :
          /\ video' = [id |-> i, status |-> s, error |-> FALSE,
                    failure_reason |-> FALSE]
          /\ calls' = Append(calls, Call("create", i, s, 0))
          /\ pc' = "wfc_enter"
          /\ UNCHANGED exc
     \/ /\ calls' = Append(calls, Call("create", "", "raised", 0))
        /\ IF Count("create") = 0
             THEN UNCHANGED << pc, exc >>
             ELSE Raise("APIError")
        /\ UNCHANGED video
  /\ out' = Append(out, "STEP 1")
  /\ UNCHANGED << env, initial_fs, last_snapshot, writes, poll_video, completed_video, now, start_time,
                  elapsed_log, content, output_path, dir_exists, files >>

\* generate_video, called from main: one client.videos.create call, which
\* returns a Job snapshot or raises.
GenerateVideo ==
  /\ pc = "main"
  /\ \/ \E i \in Ids, s \in CreateStatuses :
          /\ video' = [id |-> i, status |-> s, error |-> FALSE,
                    failure_reason |-> FALSE]
          /\ calls' = Append(calls, Call("create", i, s, 0))
          /\ pc' = "wfc_enter"
          /\ UNCHANGED exc
     \/ /\ calls' = Append(calls, Call("create", "", "raised", 0))
        /\ Raise("APIError")
        /\ UNCHANGED video
  /\ out' = Append(out, "STEP 1")
  /\ UNCHANGED << env, initial_fs, last_snapshot, writes, poll_video, completed_video, now, start_time,
                  elapsed_log, content, output_path, dir_exists, files >>

\* Retrieve with a first failed call swallowed and the step done again.
Retrieve_RetryOnce(next_pc) ==
  \E d \in Latencies :
    /\ now' = now + d
    /\ \/ \E s \in Statuses :
            /\ last_snapshot' = [id |-> video.id, status |-> s,
                                 error |-> FALSE, failure_reason |-> FALSE]
            /\ poll_video' = last_snapshot'
            /\ calls' = Append(calls, Call("retrieve", video.id, s, 0))
            /\ pc' = next_pc
            /\ UNCHANGED exc
       \/ /\ calls' = Append(calls, Call("retrieve", video.id, "raised", 0))
          /\ IF \E i \in 1..Len(calls) : calls[i].res = "raised"
               THEN Raise("APIError")
               ELSE UNCHANGED << pc, exc >>
          /\ UNCHANGED << poll_video, last_snapshot >>

\* client.videos.retrieve(video_id) inside wait_for_completion: the
\* snapshot of the job video_id, with any status, or an exception.
Retrieve(next_pc) ==
  \E d \in Latencies :
    /\ now' = now + d
    /\ \/ \E s \in Statuses, e \in BOOLEAN, r \in BOOLEAN :
            /\ (e \/ r) => s \in {"failed", "cancelled"}
            /\ ~(e /\ r)
            /\ last_snapshot' = [id |-> video.id, status |-> s, error |-> e,
                                 failure_reason |-> r]
            /\ poll_video' = last_snapshot'
            /\ calls' = Append(calls, Call("retrieve", video.id, s, 0))
            /\ pc' = next_pc
            /\ UNCHANGED exc
       \/ /\ calls' = Append(calls, Call("retrieve", video.id, "raised", 0))
          /\ Raise("APIError")
          /\ UNCHANGED << poll_video, last_snapshot >>

\* WaitInitial with the loop written sleep-first: no initial retrieve.
WaitInitial_SleepFirst ==
  /\ pc = "wfc_enter"
  /\ start_time' = now
  /\ calls' = Append(calls, Call("sleep", "", "ok", poll_interval))
  /\ now' = now + poll_interval
  /\ pc' = "wfc_poll"
  /\ out' = Append(out, "STEP 2")
  /\ UNCHANGED << env, initial_fs, last_snapshot, writes, video, poll_video, completed_video, exc, elapsed_log,
                  content, output_path, dir_exists, files >>

\* wait_for_completion, lines 95-106: take start_time, then the initial
\* retrieve.
WaitInitial ==
  /\ pc = "wfc_enter"
  /\ start_time' = now
  /\ Retrieve("wfc_loop")
  /\ out' = Append(out, "STEP 2")
  /\ UNCHANGED << env, initial_fs, writes, video, completed_video, elapsed_log, content,
                  output_path, dir_exists, files >>

\* PollSleep with the time.sleep call forgotten: the loop polls at once.
PollSleep_NoSleep ==
  /\ pc = "wfc_loop"
  /\ ~IsTerminal(poll_video.status)
  /\ Count("retrieve") <= MaxPolls
  /\ elapsed_log' = Append(elapsed_log, now - start_time)
  /\ pc' = "wfc_poll"
  /\ UNCHANGED << env, initial_fs, last_snapshot, writes, video, poll_video, completed_video, exc, calls, now,
                  start_time, content, output_path, dir_exists, files, out >>

\* Lines 108-111: the loop condition holds; report the elapsed time and
\* sleep poll_interval seconds.
PollSleep ==
  /\ pc = "wfc_loop"
  /\ ~IsTerminal(poll_video.status)
  /\ Count("sleep") < MaxPolls
  /\ elapsed_log' = Append(elapsed_log, now - start_time)
  /\ calls' = Append(calls, Call("sleep", "", "ok", poll_interval))
  /\ now' = now + poll_interval
  /\ pc' = "wfc_poll"
  /\ UNCHANGED << env, initial_fs, last_snapshot, writes, video, poll_video, completed_video, exc, start_time,
                  content, output_path, dir_exists, files, out >>

\* time.time() reads the system clock, which can be set back (an NTP step,
\* an operator) while the poller sleeps.  One adjustment is explored per
\* run: the guard holds until the clock is behind start_time.
ClockSetBack ==
  /\ pc = "wfc_poll"
  /\ now >= start_time
  /\ now' = now - SetBack
  /\ UNCHANGED << env, initial_fs, last_snapshot, writes, video, poll_video,
                  completed_video, exc, calls, pc, start_time, elapsed_log,
                  content, output_path, dir_exists, files, out >>

\* Line 114: retrieve the latest status, then back to the loop condition.
PollRetrieve ==
  /\ pc = "wfc_poll"
  /\ Retrieve("wfc_loop")
  /\ UNCHANGED << env, initial_fs, writes, video, completed_video, start_time, elapsed_log,
                  content, output_path, dir_exists, files, out >>

\* Lines 119-131: what wait_for_completion prints about the final snapshot
\* v: the completion, or the final status with the error and the failure
\* reason when the snapshot carries them, and the full response.
FinalReport(v) ==
  IF v.status = "completed"
    THEN << "Generation completed" >>
    ELSE << "Generation ended" >>
         \o (IF v.error THEN << "Job error" >> ELSE << >>)
         \o (IF v.failure_reason THEN << "Failure reason" >> ELSE << >>)
         \o << "Full response" >>

\* WaitReturn returning a copy of the snapshot that keeps id and status
\* only.
WaitReturn_StripsReason ==
  /\ pc = "wfc_loop"
  /\ IsTerminal(poll_video.status)
  /\ elapsed_log' = Append(elapsed_log, now - start_time)
  /\ completed_video' =
       [poll_video EXCEPT !.error = FALSE, !.failure_reason = FALSE]
  /\ out' = out \o FinalReport(completed_video')
  /\ pc' = "main_check"
  /\ UNCHANGED << env, initial_fs, last_snapshot, writes, video, poll_video,
                  exc, calls, now, start_time, content, output_path,
                  dir_exists, files >>

\* Lines 116-133 and 181: the loop condition fails; report the total time
\* and the final snapshot, and return it to main as completed_video.
WaitReturn ==
  /\ pc = "wfc_loop"
  /\ IsTerminal(poll_video.status)
  /\ elapsed_log' = Append(elapsed_log, now - start_time)
  /\ completed_video' = poll_video
  /\ out' = out \o FinalReport(poll_video)
  /\ pc' = "main_check"
  /\ UNCHANGED << env, initial_fs, last_snapshot, writes, video, poll_video,
                  exc, calls, now, start_time, content, output_path,
                  dir_exists, files >>

\* ShouldDownload with the test written as "status is not failed".
ShouldDownload_UnlessFailed(v) == v.status # "failed"

\* Line 184: if completed_video.status == "completed"
ShouldDownload(v) == v.status = "completed"

\* MainCheck with the output directory created before the status is
\* looked at.
MainCheck_MakesDirFirst ==
  /\ pc = "main_check"
  /\ dir_exists' = TRUE
  /\ IF ShouldDownload(completed_video)
       THEN /\ pc' = "dl_enter"
            /\ UNCHANGED out
       ELSE /\ pc' = "done"
            /\ out' = out \o << "PIPELINE FAILED", "Common failure reasons" >>
  /\ UNCHANGED << env, initial_fs, last_snapshot, writes, video, poll_video,
                  completed_video, exc, calls, now, start_time, elapsed_log,
                  content, output_path, files >>

\* Lines 183-202: download on success, otherwise report the failure.
MainCheck ==
  /\ pc = "main_check"
  /\ IF ShouldDownload(completed_video)
       THEN /\ pc' = "dl_enter"
            /\ UNCHANGED out
       ELSE /\ pc' = "done"
            /\ out' = out \o << "PIPELINE FAILED", "Common failure reasons" >>
  /\ UNCHANGED << env, initial_fs, last_snapshot, writes, video, poll_video, completed_video, exc, calls, now,
                  start_time, elapsed_log, content, output_path, dir_exists,
                  files >>

\* EnsureDir with os.makedirs called without the os.path.exists test: it
\* raises FileExistsError on a directory that is already there.
EnsureDir_NoExistsCheck ==
  /\ pc = "dl_enter"
  /\ \/ /\ dir_exists
        /\ Raise("FileExistsError")
        /\ UNCHANGED dir_exists
     \/ /\ ~dir_exists
        /\ dir_exists' = TRUE
        /\ pc' = "dl_fetch"
        /\ UNCHANGED exc
     \/ /\ ~dir_exists
        /\ Raise("OSError")
        /\ UNCHANGED dir_exists
  /\ out' = Append(out, "STEP 3")
  /\ UNCHANGED << env, initial_fs, last_snapshot, writes, video, poll_video,
                  completed_video, calls, now, start_time, elapsed_log,
                  content, output_path, files >>

\* download_video, lines 140-156: create the output directory if it does
\* not exist (os.makedirs may raise).
EnsureDir ==
  /\ pc = "dl_enter"
  /\ \/ /\ dir_exists
        /\ pc' = "dl_fetch"
        /\ UNCHANGED << dir_exists, exc >>
     \/ /\ ~dir_exists
        /\ dir_exists' = TRUE
        /\ pc' = "dl_fetch"
        /\ UNCHANGED exc
     \/ /\ ~dir_exists
        /\ Raise("OSError")
        /\ UNCHANGED dir_exists
  /\ out' = Append(out, "STEP 3")
  /\ UNCHANGED << env, initial_fs, last_snapshot, writes, video, poll_video, completed_video, calls, now,
                  start_time, elapsed_log, content, output_path, files >>

\* DownloadContent with a first failed call tried once more.
DownloadContent_RetryOnce ==
  /\ pc = "dl_fetch"
  /\ \/ \E n \in Sizes :
          /\ content' = File(n)
          /\ calls' = Append(calls, Call("download", video.id, "ok", 0))
          /\ pc' = "dl_write"
          /\ UNCHANGED exc
     \/ /\ calls' = Append(calls, Call("download", video.id, "raised", 0))
        /\ IF Count("download") = 0
             THEN UNCHANGED << pc, exc >>
             ELSE Raise("APIError")
        /\ UNCHANGED content
  /\ UNCHANGED << env, initial_fs, last_snapshot, writes, video, poll_video,
                  completed_video, now, start_time, elapsed_log, output_path,
                  dir_exists, files, out >>

\* Line 159: client.videos.download_content(video_id, variant="video").
DownloadContent ==
  /\ pc = "dl_fetch"
  /\ \/ \E n \in Sizes :
          /\ content' = File(n)
          /\ calls' = Append(calls, Call("download", video.id, "ok", 0))
          /\ pc' = "dl_write"
          /\ UNCHANGED exc
     \/ /\ calls' = Append(calls, Call("download", video.id, "raised", 0))
        /\ Raise("APIError")
        /\ UNCHANGED content
  /\ UNCHANGED << env, initial_fs, last_snapshot, writes, video, poll_video, completed_video, now, start_time,
                  elapsed_log, output_path, dir_exists, files, out >>

\* One write_to_file call: the path, the bytes asked to be written, and
\* whether the call returned (TRUE) or raised (FALSE).
Write(path, size, ok) == [path |-> path, size |-> size, ok |-> ok]

\* WriteToFile with the file opened for appending: the bytes are added to
\* what the file already holds.
WriteToFile_Appends ==
  /\ pc = "dl_write"
  /\ LET path == OutputPath(output_dir, video.id) IN
       /\ files' = [files EXCEPT
                      ![path] = File(files[path].size + content.size)]
       /\ writes' = Append(writes, Write(path, content.size, TRUE))
       /\ pc' = "dl_written"
       /\ UNCHANGED exc
  /\ UNCHANGED << env, initial_fs, last_snapshot, video, poll_video,
                  completed_video, calls, now, start_time, elapsed_log,
                  content, output_path, dir_exists, out >>

\* Line 162: content.write_to_file(output_file_path).  The write replaces
\* the file; a failed write leaves the file as it was (it could not be
\* opened) or truncated to a part of the content.
WriteToFile ==
  /\ pc = "dl_write"
  /\ LET path == OutputPath(output_dir, video.id) IN
       \/ /\ files' = [files EXCEPT ![path] = File(content.size)]
          /\ writes' = Append(writes, Write(path, content.size, TRUE))
          /\ pc' = "dl_written"
          /\ UNCHANGED exc
       \/ /\ Raise("OSError")
          /\ writes' = Append(writes, Write(path, content.size, FALSE))
          /\ UNCHANGED files
       \/ /\ Raise("OSError")
          /\ writes' = Append(writes, Write(path, content.size, FALSE))
          /\ files' = [files EXCEPT ![path] = File(PartialSize)]
  /\ UNCHANGED << env, initial_fs, last_snapshot, video, poll_video,
                  completed_video, calls, now, start_time, elapsed_log,
                  content, output_path, dir_exists, out >>

\* Lines 164-168 and 185-191: report the saved file, return the path to
\* main, which reports the pipeline complete.
DownloadReturn ==
  /\ pc = "dl_written"
  /\ output_path' = OutputPath(output_dir, video.id)
  /\ out' = out \o << "Video saved", "PIPELINE COMPLETE" >>
  /\ pc' = "done"
  /\ UNCHANGED << env, initial_fs, last_snapshot, writes, video, poll_video, completed_video, exc, calls, now,
                  start_time, elapsed_log, content, dir_exists, files >>

\* Lines 204-211: main's except Exception clause reports the error, its
\* type name and the troubleshooting list; main then returns.
HandleException ==
  /\ pc = "except"
  /\ out' = out \o << "Error", "Error type", "Troubleshooting" >>
  /\ pc' = "done"
  /\ UNCHANGED << env, initial_fs, last_snapshot, writes, video, poll_video, completed_video, exc, calls, now,
                  start_time, elapsed_log, content, output_path, dir_exists,
                  files >>

Next ==
  \/ LoadConfig
  \/ GenerateVideo
  \/ WaitInitial
  \/ PollSleep
  \/ ClockSetBack
  \/ PollRetrieve
  \/ WaitReturn
  \/ MainCheck
  \/ EnsureDir
  \/ DownloadContent
  \/ WriteToFile
  \/ DownloadReturn
  \/ HandleException

Spec == Init /\ [][Next]_vars

\* The run is sequential and every call returns: each enabled step is
\* eventually taken.
FairSpec == Spec /\ WF_vars(Next)

(* ----------------- download_video called twice for one id -------------- *)

\* A configuration with every required value set.
ValidEnv ==
  [api_key |-> [set |-> TRUE, val |-> "x"],
   resource_name |-> [set |-> TRUE, val |-> "x"],
   model_name |-> [set |-> TRUE, val |-> "x"]]

\* The state in which a caller enters download_video(video_id) for a
\* completed job, on any of the filesystems a run can find.
InitTwice ==
  /\ env = ValidEnv
  /\ pc = "dl_enter"
  /\ \E i \in Ids :
       video = [id |-> i, status |-> "completed", error |-> FALSE,
                failure_reason |-> FALSE]
  /\ poll_video = video
  /\ completed_video = video
  /\ last_snapshot = video
  /\ exc = NoExc
  /\ calls = << >>
  /\ now = 0
  /\ start_time = 0
  /\ elapsed_log = << >>
  /\ content = NoContent
  /\ output_path = ""
  /\ dir_exists \in BOOLEAN
  /\ \E old \in {{}, {OutputPath(output_dir, "abc123")}} :
       /\ (old # {} => dir_exists)
       /\ files = [p \in Paths |-> IF p \in old THEN File(OldSize) ELSE NoFile]
  /\ out = << >>
  /\ initial_fs = [dir_exists |-> dir_exists, files |-> files]
  /\ writes = << >>

\* Number of times download_video has been entered.
Invocations == Cardinality({ i \in 1..Len(out) : out[i] = "STEP 3" })

\* download_video(video_id) is called a second time, with the same id,
\* after the first call has returned.
DownloadAgain ==
  /\ pc = "done"
  /\ exc = NoExc
  /\ Invocations < 2
  /\ pc' = "dl_enter"
  /\ UNCHANGED << env, initial_fs, last_snapshot, writes, video, poll_video,
                  completed_video, exc, calls, now, start_time, elapsed_log,
                  content, output_path, dir_exists, files, out >>

NextTwice ==
  \/ EnsureDir
  \/ DownloadContent
  \/ WriteToFile
  \/ DownloadReturn
  \/ DownloadAgain

\* download_video run twice; an exception ends the behaviour (it leaves
\* download_video for its caller).
TwiceSpec == InitTwice /\ [][NextTwice]_vars

(* ------------------------------- claims -------------------------------- *)

\* The positions inside download_video.
DownloadRegion == {"dl_enter", "dl_fetch", "dl_write", "dl_written"}

\* C1: whenever wait_for_completion has returned normally, the status of
\* the Job it returned is completed, failed or cancelled, whatever statuses
\* the retrieve calls reported.
C1_PollerReturnsTerminal ==
  completed_video # NoVideo =>
    completed_video.status \in {"completed", "failed", "cancelled"}

\* C1 witness: the poller has returned a cancelled Job after polling twice.
C1_Witness ==
  /\ completed_video.status = "cancelled"
  /\ Count("sleep") >= 2

\* C2: download_video is entered, and download_content called, only when
\* the Job returned by the poller has status exactly completed; with failed
\* or cancelled the Downloader is never invoked.
C2_DownloadOnlyIfCompleted ==
  /\ (pc \in DownloadRegion \/ Count("download") > 0 \/ output_path # "")
       => completed_video.status = "completed"
  /\ completed_video.status \in {"failed", "cancelled"}
       => /\ pc \notin DownloadRegion
          /\ Count("download") = 0
          /\ content = NoContent

\* C2 witness: a run that ended after calling download_content.
C2_Witness ==
  /\ pc = "done"
  /\ Count("download") = 1
  /\ completed_video.status = "completed"

\* Whether a required configuration value is unset or empty.
SomeConfigAbsent ==
  \E k \in {"api_key", "resource_name", "model_name"} :
    ~env[k].set \/ env[k].val = ""

\* C3: when a required configuration value is missing or empty the program
\* fails at startup with the configuration error (ValueError) and no remote
\* operation is ever called.
C3_MissingConfigNoRemoteCall ==
  SomeConfigAbsent =>
    /\ calls = << >>
    /\ pc \in {"load", "crashed"}
    /\ pc = "crashed" => exc = "ValueError"

\* C3 witness: the program has failed on an api key that is set but empty.
C3_Witness ==
  /\ pc = "crashed"
  /\ env.api_key.set
  /\ env.api_key.val = ""
  /\ env.resource_name.val = "x"
  /\ env.model_name.val = "x"

\* The three messages main's handler prints, the last things printed.
HandlerReported ==
  /\ Len(out) >= 3
  /\ SubSeq(out, Len(out) - 2, Len(out))
       = << "Error", "Error type", "Troubleshooting" >>

\* C4 as stated: on every failure path, the configuration error included,
\* the error is caught by main's handler, reported with its type and the
\* troubleshooting list, and the process does not end in an uncaught
\* exception.
C4_Original ==
  exc # NoExc =>
    /\ pc \in {"except", "done"}
    /\ pc = "done" => HandlerReported

\* C4 amended: every error raised once main runs (creation rejected, a
\* retrieval error, a download or local write failure) is caught by main's
\* handler and reported with its type and the troubleshooting list; the
\* only uncaught exception is the configuration error (ValueError), raised
\* at import before main runs.
C4_ErrorsInMainHandled ==
  /\ (exc # NoExc /\ ~SomeConfigAbsent) =>
       /\ pc \in {"except", "done"}
       /\ pc = "done" => HandlerReported
  /\ pc = "crashed" =>
       /\ SomeConfigAbsent
       /\ exc = "ValueError"
       /\ out = << "Traceback" >>

\* C4 witness: a failed local write was caught and reported.
C4_Witness ==
  /\ pc = "done"
  /\ exc = "OSError"
  /\ Count("download") = 1
  /\ HandlerReported

\* Whether a log entry is a step of the poller.
IsPollerEvent(c) == c.op \in {"retrieve", "sleep"}

\* The retrieve calls and sleeps made so far, in order.
PollerEvents == SelectSeq(calls, IsPollerEvent)

\* C5: the poller's first step is a retrieve, never a sleep, and when that
\* first retrieve reports a terminal status the poller never sleeps.
C5_RetrieveBeforeSleep ==
  PollerEvents # << >> =>
    /\ PollerEvents[1].op = "retrieve"
    /\ PollerEvents[1].res \in {"completed", "failed", "cancelled"}
         => /\ Count("sleep") = 0
            /\ Count("retrieve") = 1

\* C5 witness: the poller returned after a single retrieve and no sleep.
C5_Witness ==
  /\ completed_video # NoVideo
  /\ Count("retrieve") = 1
  /\ Count("sleep") = 0

\* C6: the create operation is called at most once, and exactly once as
\* soon as main is past generate_video, also when the call raised.
C6_CreateExactlyOnce ==
  /\ Count("create") <= 1
  /\ pc \notin {"load", "main", "crashed"} => Count("create") = 1

\* C6 witness: the run ended on a rejected creation request, tried once.
C6_Witness ==
  /\ pc = "done"
  /\ exc = "APIError"
  /\ calls = << Call("create", "", "raised", 0) >>

\* Whether entry i of the log is a create call that returned a Job with
\* the id that entry k was called with.
CreatedBefore(i, k) ==
  /\ i < k
  /\ calls[i].op = "create"
  /\ calls[i].res # "raised"
  /\ calls[i].id = calls[k].id

\* Whether entry i of the log is a retrieve call that returned status
\* completed for the id that entry k was called with.
CompletedBefore(i, k) ==
  /\ i < k
  /\ calls[i].op = "retrieve"
  /\ calls[i].res = "completed"
  /\ calls[i].id = calls[k].id

\* C7: control flows Submitter -> Poller -> Downloader: every retrieve
\* call comes after a create call that returned a Job, every download call
\* (and every step of download_video) after a retrieve call that returned
\* completed, and both are called with the id the create call returned.
C7_StrictPipelineOrder ==
  /\ \A k \in 1..Len(calls) :
       /\ calls[k].op \in {"retrieve", "download"}
            => \E i \in 1..Len(calls) : CreatedBefore(i, k)
       /\ calls[k].op = "download"
            => \E i \in 1..Len(calls) : CompletedBefore(i, k)
  /\ pc \in {"wfc_enter", "wfc_loop", "wfc_poll"}
       => \E i \in 1..Len(calls) :
            calls[i].op = "create" /\ calls[i].res # "raised"
  /\ pc \in DownloadRegion
       => \E i \in 1..Len(calls) :
            calls[i].op = "retrieve" /\ calls[i].res = "completed"

\* C7 witness: a download call for the second id, made after polling.
C7_Witness ==
  /\ Count("download") = 1
  /\ Count("sleep") >= 1
  /\ calls[Len(calls)].op = "download"
  /\ calls[Len(calls)].id = "video_2"

\* C8: after a retrieve call has returned a terminal status, the log holds
\* no further retrieve call and no further sleep.
C8_StopsAfterTerminal ==
  \A i \in 1..Len(calls) :
    (calls[i].op = "retrieve"
       /\ calls[i].res \in {"completed", "failed", "cancelled"})
      => \A k \in (i + 1)..Len(calls) : ~IsPollerEvent(calls[k])

\* C8 witness: the run went on after a terminal status seen on the
\* third retrieve.
C8_Witness ==
  /\ Count("retrieve") = 3
  /\ Count("download") = 1

\* C9: the poller's steps alternate retrieve, sleep, retrieve, ...: every
\* retrieve that returns a non-terminal status is followed by exactly one
\* sleep of 10 seconds and one further retrieve, and a sleep only follows
\* such a retrieve.
C9_OneRetrieveOneSleep ==
  /\ \A k \in 1..Len(PollerEvents) :
       /\ PollerEvents[k].op = (IF k % 2 = 1 THEN "retrieve" ELSE "sleep")
       /\ PollerEvents[k].op = "sleep"
            => /\ PollerEvents[k].secs = 10
               /\ PollerEvents[k - 1].res \in {"queued", "in_progress"}
  /\ pc = "wfc_loop" => Count("retrieve") = Count("sleep") + 1
  /\ pc = "wfc_poll" => Count("retrieve") = Count("sleep")
  /\ completed_video # NoVideo => Count("retrieve") = Count("sleep") + 1

\* C9 witness: the loop condition is reached after two full iterations.
C9_Witness ==
  /\ pc = "wfc_loop"
  /\ Count("sleep") = 2
  /\ Count("retrieve") = 3

\* Whether a retrieve call has reported a terminal status.
TerminalReported ==
  \E i \in 1..Len(calls) :
    /\ calls[i].op = "retrieve"
    /\ calls[i].res \in {"completed", "failed", "cancelled"}

\* Whether the poller is at its loop condition with a non-terminal status.
StillPending ==
  /\ pc = "wfc_loop"
  /\ poll_video.status \notin {"completed", "failed", "cancelled"}

\* C10: once a retrieve call has reported a terminal status the poller
\* returns and the run ends; and as long as the status is non-terminal the
\* poller's only step, however many polls it has made, is to sleep and
\* retrieve again: it does not return.
C10_EndsOnlyOnTerminalStatus ==
  /\ TerminalReported ~> (completed_video # NoVideo)
  /\ TerminalReported ~> (pc = "done")
  /\ [][StillPending =>
         /\ pc' = "wfc_poll"
         /\ completed_video' = NoVideo
         /\ Count("sleep")' = Count("sleep") + 1]_vars

\* C10 witness: a run that ended with the file saved after two sleeps.
C10_Witness ==
  /\ pc = "done"
  /\ Count("sleep") = 2
  /\ output_path # ""

\* Whether message m has been printed.
Printed(m) == \E i \in 1..Len(out) : out[i] = m

\* C11: a remote call that raised is the last remote call (and the last
\* sleep) of the run: nothing is tried again, the error is in main's
\* handler or reported by it, and after a failed retrieve nothing is
\* downloaded or written.
C11_NoRetryAfterError ==
  \A i \in 1..Len(calls) :
    calls[i].res = "raised" =>
      /\ i = Len(calls)
      /\ exc = "APIError"
      /\ pc \in {"except", "done"}
      /\ pc = "done" => HandlerReported
      /\ calls[i].op = "retrieve" =>
           /\ writes = << >>
           /\ content = NoContent
           /\ files = initial_fs.files

\* C11 witness: the run ended on a retrieve that raised after one sleep.
C11_Witness ==
  /\ pc = "done"
  /\ Count("sleep") = 1
  /\ calls[Len(calls)] = Call("retrieve", "abc123", "raised", 0)
  /\ HandlerReported

\* C12: the Job the poller returned is the snapshot of its last retrieve
\* call, unchanged; a run that ended on failed or cancelled downloaded
\* nothing and reported the failure, with the error and the failure reason
\* exactly when the snapshot carries them.
C12_ReturnsLastSnapshot ==
  /\ completed_video # NoVideo =>
       /\ completed_video = last_snapshot
       /\ PollerEvents[Len(PollerEvents)].op = "retrieve"
       /\ PollerEvents[Len(PollerEvents)].res = completed_video.status
  /\ (pc = "done" /\ last_snapshot.status \in {"failed", "cancelled"}) =>
       /\ Count("download") = 0
       /\ writes = << >>
       /\ Printed("PIPELINE FAILED")
       /\ Printed("Failure reason") <=> last_snapshot.failure_reason
       /\ Printed("Job error") <=> last_snapshot.error

\* C12 witness: the statuses were queued then failed, with a failure
\* reason attached, and the run has ended.
C12_Witness ==
  /\ pc = "done"
  /\ Len(PollerEvents) = 3
  /\ PollerEvents[1].res = "queued"
  /\ PollerEvents[3].res = "failed"
  /\ completed_video.failure_reason
  /\ Printed("Failure reason")

\* C13: download_video run twice for one id: the second run gets past the
\* directory step although the directory exists, never raises
\* FileExistsError, and when both runs have returned the file at
\* videos/<id>.mp4 holds the second download, both writes went to that one
\* path and no other file has changed.
C13_SecondDownloadOverwrites ==
  /\ exc # "FileExistsError"
  /\ (Invocations = 2 /\ Count("download") = 1) => pc = "dl_fetch"
  /\ (Invocations = 2 /\ pc = "done") =>
       /\ exc = NoExc
       /\ Len(writes) = 2
       /\ writes[1].path = "videos/" \o video.id \o ".mp4"
       /\ writes[2].path = writes[1].path
       /\ files[writes[2].path] = File(writes[2].size)
       /\ \A p \in DOMAIN files \ {writes[2].path} :
            files[p] = initial_fs.files[p]

\* C13 witness: two runs returned, the first wrote 1024 bytes into a new
\* directory and the second 2048 bytes over them.
C13_Witness ==
  /\ Invocations = 2
  /\ pc = "done"
  /\ ~initial_fs.dir_exists
  /\ writes[1].size = 1024
  /\ writes[2].size = 2048
  /\ files["videos/abc123.mp4"] = File(2048)

ScenarioQueuedQueuedCompleted ==
  /\ pc = "done"
  /\ exc = NoExc
  /\ Len(PollerEvents) = 5
  /\ PollerEvents[1].res = "queued"
  /\ PollerEvents[3].res = "queued"
  /\ PollerEvents[5].res = "completed"
  /\ content = File(1024)

\* C15: after create, the statuses queued, queued, completed and a
\* download of 1024 bytes, the run ends reporting the pipeline complete,
\* the reported path is videos/<id>.mp4 for the id the create call
\* returned, and the file there is 1024 bytes long.
C15_EndToEndSuccess ==
  ScenarioQueuedQueuedCompleted =>
    /\ out[Len(out)] = "PIPELINE COMPLETE"
    /\ calls[1].op = "create"
    /\ output_path = "videos/" \o calls[1].id \o ".mp4"
    /\ files[output_path] = File(1024)

\* C15 witness: the scenario has run and replaced a file of an earlier
\* run.
C15_Witness ==
  /\ ScenarioQueuedQueuedCompleted
  /\ output_path = "videos/abc123.mp4"
  /\ initial_fs.files["videos/abc123.mp4"].exists

\* C16: the elapsed values printed in one poller run (one before each
\* sleep, then the total) never decrease.
C16_ElapsedNonDecreasing ==
  \A i \in 1..Len(elapsed_log) :
    \A k \in i..Len(elapsed_log) : elapsed_log[i] <= elapsed_log[k]

\* The paths whose file differs from the one the run found.
ChangedPaths == { p \in DOMAIN files : files[p] # initial_fs.files[p] }

\* C17: in one run of main, download_content is called at most once, and
\* at most one write_to_file call is made and at most one file changed.
C17_AtMostOneDownload ==
  /\ Count("download") <= 1
  /\ Len(writes) <= 1
  /\ Cardinality(ChangedPaths) <= 1

\* C17 witness: a run that ended after one download and one write.
C17_Witness ==
  /\ pc = "done"
  /\ Count("download") = 1
  /\ Len(writes) = 1
  /\ writes[1].ok
  /\ Cardinality(ChangedPaths) = 1

\* C18: until download_video is entered the filesystem is as the run found
\* it (no directory created, no file written); the only file that ever
\* changes is videos/<id>.mp4, and only after a download_content call that
\* succeeded; a failed download_content call leaves every file as it was.
C18_FilesystemFrame ==
  /\ ~Printed("STEP 3") =>
       /\ dir_exists = initial_fs.dir_exists
       /\ files = initial_fs.files
       /\ writes = << >>
  /\ (ChangedPaths # {} \/ writes # << >>) =>
       /\ ChangedPaths \subseteq {"videos/" \o video.id \o ".mp4"}
       /\ \E i \in 1..Len(calls) :
            calls[i] = Call("download", video.id, "ok", 0)
  /\ (\E i \in 1..Len(calls) :
        calls[i].op = "download" /\ calls[i].res = "raised") =>
       /\ files = initial_fs.files
       /\ writes = << >>

\* C18 witness: a run that ended on status failed and found, and left, no
\* output directory.
C18_Witness ==
  /\ pc = "done"
  /\ completed_video.status = "failed"
  /\ ~initial_fs.dir_exists
  /\ ~dir_exists

====
